---------------------------- MODULE Spec2Model ----------------------------
(***************************************************************************)
(* The tick simulation core of the console Snake game, in its two          *)
(* variants: snake_raw.cpp (macOS, variant "raw") and snake_win.cpp        *)
(* (Windows, variant "win").  The Game object's fields are the variables,  *)
(* change_dir() and update() are actions, and main()'s loop is a process   *)
(* whose position is pc.                                                   *)
(***************************************************************************)
EXTENDS Integers, Sequences, FiniteSets, TLC

VARIABLES
    variant,          \* "raw" (snake_raw.cpp) or "win" (snake_win.cpp)
    snake,            \* deque<Point>, front = head
    dir,              \* Dir
    food,             \* Point
    game_over,        \* bool
    score,            \* int
    consuming,        \* bool, the bite animation is running
    chomp_frames,     \* int, countdown of the bite animation
    poop_to_drop,     \* int
    poops,            \* vector<Poop>
    level,            \* int           (win only)
    level_flash,      \* int           (win only)
    level_up_trigger, \* bool          (win only)
    sounds,           \* the sounds requested by the latest update(), in order
    call,             \* the latest operation executed: its name, its key or the path it took
    ticks,            \* number of update() calls so far
    log,              \* what the calls so far did, as seen from outside the Game
    pc,               \* position of main()
    kbd,              \* keystrokes waiting in the terminal
    typed,            \* number of keystrokes typed so far
    in_q,             \* queue<char> in_q
    running,          \* atomic<bool> running (raw only)
    tick_ms,          \* int tick_ms (win; the raw TICK is constant)
    next_tick,        \* next_tick, measured from the latest reading of now
    slept,            \* the previous iteration ended in sleep_until(next_tick)
    applied,          \* change_dir() calls since the latest update()
    lag0,             \* now - next_tick at the latest reading of now
    batch             \* the values of next_tick at which update() ran since then

gvars == <<variant, snake, dir, food, game_over, score, consuming, chomp_frames,
           poop_to_drop, poops, level, level_flash, level_up_trigger>>
mvars == <<pc, kbd, typed, in_q, running, tick_ms, next_tick, slept, applied,
           lag0, batch>>
vars == <<gvars, sounds, call, ticks, log, mvars>>

-----------------------------------------------------------------------------
(* Configuration *)
ROWS == 20
COLS == 80
TICK == 100
BASE_TICK_MS == 100
MIN_TICK_MS == 30
TICK_DECR_MS == 15
\* Fault: a deposit outlives the snake's way back to its cell
PoopTtlLong == 12 + 4
POOP_TTL == 12
CHOMP_TOTAL == 8

(* Bounds of the model *)
MaxTicks == 12      \* update() calls explored by Spec
FoodReach == 1      \* the random Food positions tried first lie this near the head
MaxKeys == 2        \* keystrokes typed during a run of main()
MaxLoopTicks == 3   \* update() calls explored by SpecMain
MaxStalls == 3      \* a reading of the clock is late by up to MaxStalls * StallStep ms
MaxRunTicks == 470  \* update() calls explored by SpecLevels
MaxTrailTicks == 26 \* update() calls explored by SpecTrail
MaxTrailMoves == 8  \* of them outside the bite animation: the moves of the snake
MaxTurns == 5       \* turns of the snake during a run of SpecTrail
MaxIdleTicks == 40  \* update() calls explored by SpecIdle
MaxOff == 3         \* wrap() is tried on positions up to MaxOff cells off the board

Variants == {"raw", "win"}
Dirs == {"Up", "Down", "Left", "Right"}
Keys == {"W", "A", "S", "D", "X"}
Board == [r : 0..(ROWS - 1), c : 0..(COLS - 1)]

-----------------------------------------------------------------------------
(* Game model *)
Point(r, c) == [r |-> r, c |-> c]
Poop(p, ttl) == [p |-> p, ttl |-> ttl]

\* Fault: the prospective head is not wrapped
WrapNothing(p) == p

Wrap(p) ==
    LET r1 == IF p.r < 0 THEN ROWS - 1 ELSE p.r
        r2 == IF r1 >= ROWS THEN 0 ELSE r1
        c1 == IF p.c < 0 THEN COLS - 1 ELSE p.c
        c2 == IF c1 >= COLS THEN 0 ELSE c1
    IN  Point(r2, c2)

\* Fault: Up and Down are exchanged
NextHeadUpsideDown(head, d) ==
    Wrap(CASE d = "Up"    -> Point(head.r + 1, head.c)
           [] d = "Down"  -> Point(head.r - 1, head.c)
           [] d = "Left"  -> Point(head.r, head.c - 1)
           [] d = "Right" -> Point(head.r, head.c + 1))

NextHead(head, d) ==
    Wrap(CASE d = "Up"    -> Point(head.r - 1, head.c)
           [] d = "Down"  -> Point(head.r + 1, head.c)
           [] d = "Left"  -> Point(head.r, head.c - 1)
           [] d = "Right" -> Point(head.r, head.c + 1))

\* Fault: the test looks at the head cell only
OnSnakeHeadOnly(s, p) == s[1].r = p.r /\ s[1].c = p.c

\* Fault: the collision test overlooks the tail cell
OnSnakeButTail(s, p) == \E i \in 1..(Len(s) - 1) : s[i].r = p.r /\ s[i].c = p.c

\* any_of(snake.begin(), snake.end(), same cell as p)
OnSnake(s, p) == \E i \in DOMAIN s : s[i].r = p.r /\ s[i].c = p.c

\* Fault: place_food() takes the first draw, on the snake or not
PlaceFoodAnywhere(s, cand) == cand

\* The positions place_food() can return: the loop draws a random cell until
\* it is not on the snake.  The cells of cand are the draws explored; when all
\* of them are on the snake the loop goes on to any free cell of the board,
\* and it never returns when the board has no free cell.
PlaceFood(s, cand) ==
    LET free == {p \in cand : ~OnSnake(s, p)}
    IN  IF free # {} THEN free ELSE {p \in Board : ~OnSnake(s, p)}

\* Fault: only the vertical reversals are recognised
OppVertical(a, b) ==
    \/ (a = "Up" /\ b = "Down")
    \/ (a = "Down" /\ b = "Up")

Opp(a, b) ==
    \/ (a = "Up" /\ b = "Down")
    \/ (a = "Down" /\ b = "Up")
    \/ (a = "Left" /\ b = "Right")
    \/ (a = "Right" /\ b = "Left")

NewDir(d, key) ==
    LET ndir == CASE key = "W" -> "Up"
                  [] key = "S" -> "Down"
                  [] key = "A" -> "Left"
                  [] key = "D" -> "Right"
                  [] OTHER     -> d
    IN  IF ~Opp(d, ndir) THEN ndir ELSE d

\* Fault: the loop ages the first deposit only
DecayFirstOnly(ps) ==
    SelectSeq([i \in DOMAIN ps |-> Poop(ps[i].p, IF i = 1 THEN ps[i].ttl - 1 ELSE ps[i].ttl)],
              LAMBDA q : ~(q.ttl <= 0))

\* Fault: a deposit is removed one tick late, after its lifetime has been 0
DecayLate(ps) ==
    SelectSeq([i \in DOMAIN ps |-> Poop(ps[i].p, ps[i].ttl - 1)],
              LAMBDA q : ~(q.ttl < 0))

\* Fault: the deposits do not age
NoDecay(ps) == ps

DecayPoops(ps) ==
    SelectSeq([i \in DOMAIN ps |-> Poop(ps[i].p, ps[i].ttl - 1)],
              LAMBDA q : ~(q.ttl <= 0))

\* Random cells around the cell h: up to FoodReach steps along its row or column
NearCells(h) ==
    {Point((h.r + k) % ROWS, h.c) : k \in (-FoodReach..FoodReach) \ {0}}
    \cup {Point(h.r, (h.c + k) % COLS) : k \in (-FoodReach..FoodReach) \ {0}}

\* Random cells straight ahead of the cell h in direction d
AheadCells(h, d) ==
    {Point((h.r + k * (CASE d = "Up" -> -1 [] d = "Down" -> 1 [] OTHER -> 0)) % ROWS,
           (h.c + k * (CASE d = "Left" -> -1 [] d = "Right" -> 1 [] OTHER -> 0)) % COLS) :
        k \in 1..FoodReach}

InitSnake ==
    LET r == ROWS \div 2
        c == COLS \div 2
    IN  <<Point(r, c), Point(r, c - 1), Point(r, c - 2)>>

\* The time in ms the caller spends inside one sound function.  raw: afplay is
\* started in the background (the command line ends in &); win: tone() is
\* Beep(freq, ms), which returns when the tone has been played, and Sleep(ms)
SoundMs(v, s) ==
    IF v = "raw" THEN 0
    ELSE CASE s = "bite"    -> 40 + 5 + 40
           [] s = "fart"    -> 11 * 12
           [] s = "levelup" -> 80 + 10 + 110
           [] OTHER         -> 0

\* The time update() spends in the sound functions it calls
RECURSIVE SoundWait(_, _)
SoundWait(v, ss) ==
    IF ss = <<>> THEN 0 ELSE SoundMs(v, Head(ss)) + SoundWait(v, Tail(ss))

\* Nothing has been called yet
LogInit ==
    [eat_tick |-> 0, eat_len |-> 0, eat_score |-> 0, moves |-> 3, steps |-> 0,
     dropped |-> 0, eaten |-> 0, unrendered |-> 0, eat_dir |-> "none"]

\* What one update() call did, read off the Game's fields before and after it:
\*   eat_tick, eat_len, eat_score  the call that entered the latest bite
\*                                 animation, and the length and score it found
\*   moves       moves since the latest growth (counted up to 3)
\*   steps       update() calls so far that were no part of a bite animation
\*   dropped     deposits created so far
\*   eaten       growths so far
\*   unrendered  update() calls since the latest render()
\*   eat_dir     the direction of the call that entered the latest bite animation
Logged ==
    LET entered == consuming' /\ ~consuming
        grew == Len(snake') > Len(snake)
        moved == Len(snake') = Len(snake) /\ snake' # snake
        fresh == IF game_over THEN {}
                 ELSE {i \in DOMAIN poops' : poops'[i].ttl = POOP_TTL}
    IN  [eat_tick |-> IF entered THEN ticks' ELSE log.eat_tick,
         eat_len |-> IF entered THEN Len(snake) ELSE log.eat_len,
         eat_score |-> IF entered THEN score ELSE log.eat_score,
         moves |-> IF grew THEN 0
                   ELSE IF moved /\ log.moves < 3 THEN log.moves + 1
                   ELSE log.moves,
         steps |-> log.steps + (IF game_over \/ ~(consuming \/ entered) THEN 1 ELSE 0),
         dropped |-> log.dropped + Cardinality(fresh),
         eaten |-> log.eaten + (IF grew THEN 1 ELSE 0),
         unrendered |-> log.unrendered + 1,
         eat_dir |-> IF entered THEN dir ELSE log.eat_dir]

\* Game::Game(), with the Food drawn among the cells of cand
GameInit(cand) ==
    /\ snake = InitSnake
    /\ dir = "Right"
    /\ food \in PlaceFood(InitSnake, cand)
    /\ game_over = FALSE
    /\ score = 0
    /\ consuming = FALSE
    /\ chomp_frames = 0
    /\ poop_to_drop = 0
    /\ poops = <<>>
    /\ level = 1
    /\ level_flash = 0
    /\ level_up_trigger = FALSE
    /\ sounds = <<>>
    /\ call = [op |-> "init"]
    /\ ticks = 0
    /\ log = LogInit

\* Game::change_dir(key)
change_dir(key) ==
    /\ dir' = NewDir(dir, key)
    /\ call' = [op |-> "change_dir", key |-> key]
    /\ UNCHANGED <<variant, snake, food, game_over, score, consuming, chomp_frames,
                   poop_to_drop, poops, level, level_flash, level_up_trigger,
                   sounds, ticks, log>>


\* Fault: update() goes on after the game is over
NeverHalted == FALSE

\* if (game_over) return;
Halted == game_over

\* update() returns by the path named
Ret(path) == call' = [op |-> "update", path |-> path]

\* Fault: only the row is compared
AtFoodRow(nh) == nh.r = food.r

\* Fault: the prospective head is never found on the Food
FoodMissed(nh) == FALSE

\* if (nh.r == food.r && nh.c == food.c)
AtFood(nh) == nh.r = food.r /\ nh.c = food.c

\* Fault: the Food cell is pushed, wherever the prospective head is
GrowOntoFood(s, nh) == <<food>> \o s

\* Fault: push_back() instead of push_front()
GrowAtTail(s, nh) == s \o <<nh>>

\* Fault: the growth pops the tail as a move does
GrowAndPop(s, nh) == SubSeq(<<nh>> \o s, 1, Len(s))

\* snake.push_front(nh), the tail stays: the snake grows
Grow(s, nh) == <<nh>> \o s

\* Fault: front() instead of back()
BackIsFront(s) == s[1]

\* Fault: the tail is read after pop_back()
BackAfterPop(s) == s[Len(s) - 1]

\* snake.back()
Back(s) == s[Len(s)]

\* Fault: the new head is pushed and the tail is not popped
MoveNoPop(s, nh) == <<nh>> \o s

\* Fault: the tail is popped and the new head is not pushed
MoveNoPush(s, nh) == SubSeq(s, 1, Len(s) - 1)

\* Fault: pop_front() instead of pop_back()
MovePopFront(s, nh) == <<nh>> \o Tail(s)

\* snake.push_front(nh); snake.pop_back()
Move(s, nh) == SubSeq(<<nh>> \o s, 1, Len(s))

\* Fault: update() returns at once, as if the game were over
UpdateRawHalted(cand) ==
    /\ ticks' = ticks + 1
    /\ sounds' = <<>> /\ Ret("over")
    /\ UNCHANGED gvars

\* Game::update() of snake_raw.cpp; cand: the random cells place_food() draws
UpdateRaw(cand) ==
    /\ ticks' = ticks + 1
    /\ UNCHANGED <<variant, dir, level, level_flash, level_up_trigger>>
    /\ IF Halted
       THEN /\ sounds' = <<>> /\ Ret("over")
            /\ UNCHANGED <<snake, food, game_over, score, consuming, chomp_frames,
                           poop_to_drop, poops>>
       ELSE IF consuming
       THEN /\ chomp_frames' = chomp_frames - 1
            /\ poops' = DecayPoops(poops)
            /\ IF chomp_frames - 1 <= 0
               THEN LET nh == NextHead(snake[1], dir)
                    IN  IF OnSnake(snake, nh)
                        THEN /\ game_over' = TRUE
                             /\ sounds' = <<>> /\ Ret("bite_collide")
                             /\ UNCHANGED <<snake, food, score, consuming,
                                            poop_to_drop>>
                        ELSE /\ snake' = Grow(snake, nh)
                             /\ score' = score + 10
                             /\ sounds' = <<"bite">> /\ Ret("grow")
                             /\ poop_to_drop' = 3
                             /\ food' \in PlaceFood(Grow(snake, nh), cand)
                             /\ consuming' = FALSE
                             /\ UNCHANGED game_over
               ELSE /\ sounds' = <<>> /\ Ret("chomp")
                    /\ UNCHANGED <<snake, food, game_over, score, consuming,
                                   poop_to_drop>>
       ELSE LET head == snake[1]
                nh == NextHead(head, dir)
            IN  IF AtFood(nh)
                THEN /\ consuming' = TRUE
                     /\ chomp_frames' = CHOMP_TOTAL
                     /\ poops' = DecayPoops(poops)
                     /\ sounds' = <<>> /\ Ret("enter")
                     /\ UNCHANGED <<snake, food, game_over, score, poop_to_drop>>
                ELSE IF OnSnake(snake, nh)
                THEN /\ game_over' = TRUE
                     /\ poops' = DecayPoops(poops)
                     /\ sounds' = <<>> /\ Ret("collide")
                     /\ UNCHANGED <<snake, food, score, consuming, chomp_frames,
                                    poop_to_drop>>
                ELSE LET tail_before == Back(snake)
                     IN  /\ snake' = Move(snake, nh)
                         /\ IF poop_to_drop > 0
                            THEN /\ poops' = Append(DecayPoops(poops),
                                                    Poop(tail_before, POOP_TTL))
                                 /\ poop_to_drop' = poop_to_drop - 1
                                 /\ sounds' = <<"fart">> /\ Ret("drop")
                            ELSE /\ poops' = DecayPoops(poops)
                                 /\ sounds' = <<>> /\ Ret("move")
                                 /\ UNCHANGED poop_to_drop
                         /\ UNCHANGED <<food, game_over, score, consuming,
                                        chomp_frames>>

\* Fault: every Food raises the level
LevelUpAlways(sc) == TRUE

\* if (score % 100 == 0)
LevelUpDue(sc) == sc % 100 = 0

\* Game::update() of snake_win.cpp
UpdateWin(cand) ==
    /\ ticks' = ticks + 1
    /\ UNCHANGED <<variant, dir>>
    /\ IF Halted
       THEN /\ sounds' = <<>> /\ Ret("over")
            /\ UNCHANGED <<snake, food, game_over, score, consuming, chomp_frames,
                           poop_to_drop, poops, level, level_flash,
                           level_up_trigger>>
       ELSE LET flash == IF level_flash > 0 THEN level_flash - 1 ELSE level_flash
            IN
            IF consuming
            THEN /\ chomp_frames' = chomp_frames - 1
                 /\ poops' = DecayPoops(poops)
                 /\ IF chomp_frames - 1 <= 0
                    THEN LET nh == NextHead(snake[1], dir)
                         IN  IF OnSnake(snake, nh)
                             THEN /\ game_over' = TRUE
                                  /\ sounds' = <<>> /\ Ret("bite_collide")
                                  /\ level_flash' = flash
                                  /\ UNCHANGED <<snake, food, score, consuming,
                                                 poop_to_drop, level,
                                                 level_up_trigger>>
                             ELSE /\ snake' = Grow(snake, nh)
                                  /\ score' = score + 10
                                  /\ IF LevelUpDue(score + 10)
                                     THEN /\ level' = level + 1
                                          /\ level_flash' = 12
                                          /\ level_up_trigger' = TRUE
                                          /\ sounds' = <<"levelup", "bite">> /\ Ret("grow")
                                     ELSE /\ level_flash' = flash
                                          /\ sounds' = <<"bite">> /\ Ret("grow")
                                          /\ UNCHANGED <<level, level_up_trigger>>
                                  /\ poop_to_drop' = 3
                                  /\ food' \in PlaceFood(Grow(snake, nh), cand)
                                  /\ consuming' = FALSE
                                  /\ UNCHANGED game_over
                    ELSE /\ sounds' = <<>> /\ Ret("chomp")
                         /\ level_flash' = flash
                         /\ UNCHANGED <<snake, food, game_over, score, consuming,
                                        poop_to_drop, level, level_up_trigger>>
            ELSE LET nh == NextHead(snake[1], dir)
                 IN  IF AtFood(nh)
                     THEN /\ consuming' = TRUE
                          /\ chomp_frames' = CHOMP_TOTAL
                          /\ poops' = DecayPoops(poops)
                          /\ sounds' = <<>> /\ Ret("enter")
                          /\ level_flash' = flash
                          /\ UNCHANGED <<snake, food, game_over, score,
                                         poop_to_drop, level, level_up_trigger>>
                     ELSE IF OnSnake(snake, nh)
                     THEN /\ game_over' = TRUE
                          /\ poops' = DecayPoops(poops)
                          /\ sounds' = <<>> /\ Ret("collide")
                          /\ level_flash' = flash
                          /\ UNCHANGED <<snake, food, score, consuming,
                                         chomp_frames, poop_to_drop, level,
                                         level_up_trigger>>
                     ELSE LET tail_before == Back(snake)
                          IN  /\ snake' = Move(snake, nh)
                              /\ IF poop_to_drop > 0
                                 THEN /\ poops' = Append(DecayPoops(poops),
                                                         Poop(tail_before, POOP_TTL))
                                      /\ poop_to_drop' = poop_to_drop - 1
                                      /\ sounds' = <<"fart">> /\ Ret("drop")
                                 ELSE /\ poops' = DecayPoops(poops)
                                      /\ sounds' = <<>> /\ Ret("move")
                                      /\ UNCHANGED poop_to_drop
                              /\ level_flash' = flash
                              /\ UNCHANGED <<food, game_over, score, consuming,
                                             chomp_frames, level, level_up_trigger>>

\* game.update() of the variant that is running
update(cand) ==
    /\ IF variant = "win" THEN UpdateWin(cand) ELSE UpdateRaw(cand)
    /\ log' = Logged

-----------------------------------------------------------------------------
(* The Game object driven by any sequence of change_dir() and update() calls *)

Init ==
    /\ variant \in Variants
    /\ GameInit(NearCells(InitSnake[1]))
    /\ pc = "game"
    /\ kbd = <<>>
    /\ typed = 0
    /\ in_q = <<>>
    /\ running = TRUE
    /\ tick_ms = BASE_TICK_MS
    /\ next_tick = 0
    /\ slept = FALSE
    /\ applied = 0
    /\ lag0 = 0
    /\ batch = <<>>

ChangeDir == \E key \in Keys : change_dir(key) /\ UNCHANGED mvars

Update ==
    /\ ticks < MaxTicks
    /\ update(NearCells(NextHead(snake[1], dir)))
    /\ UNCHANGED mvars

Next == ChangeDir \/ Update

Spec == Init /\ [][Next]_vars

-----------------------------------------------------------------------------
(* main(): the keyboard, the input queue and the wall-clock scheduler *)

\* The keystrokes a user types: letters in either case, another letter,
\* Ctrl-C (byte 3) and the prefix byte 224 of an extended key
TypedKeys == {"W", "a", "S", "D", "Q", "x", "^C", "224"}

\* toupper(ch)
ToUpper(ch) ==
    CASE ch = "a" -> "A"
      [] ch = "x" -> "X"
      [] OTHER    -> ch

StallStep == TICK \div 2

\* enqueue(ch) of snake_raw.cpp
Enqueue(q, ch) ==
    LET u == ToUpper(ch)
    IN  IF u = "W" \/ u = "A" \/ u = "S" \/ u = "D" \/ u = "Q"
        THEN Append(q, u) ELSE q

\* The key pump of snake_raw.cpp: read_key_now() until no key is waiting;
\* Ctrl-C clears running and leaves the loop
RECURSIVE PumpRaw(_, _)
PumpRaw(k, q) ==
    IF k = <<>> THEN [kbd |-> k, q |-> q, stop |-> FALSE]
    ELSE IF Head(k) = "^C" THEN [kbd |-> Tail(k), q |-> q, stop |-> TRUE]
    ELSE PumpRaw(Tail(k), Enqueue(q, Head(k)))

\* The key pump of snake_win.cpp: while (_kbhit()) _getch(); a prefix byte
\* swallows the next byte (and waits for it), Q returns from main()
RECURSIVE PumpWin(_, _)
PumpWin(k, q) ==
    IF k = <<>> THEN [kbd |-> k, q |-> q, quit |-> FALSE, waits |-> FALSE]
    ELSE IF Head(k) = "0" \/ Head(k) = "224"
    THEN IF Len(k) = 1
         THEN [kbd |-> <<>>, q |-> q, quit |-> FALSE, waits |-> TRUE]
         ELSE PumpWin(Tail(Tail(k)), q)
    ELSE LET ch == ToUpper(Head(k))
         IN  IF ch = "Q" THEN [kbd |-> Tail(k), q |-> q, quit |-> TRUE, waits |-> FALSE]
             ELSE IF ch = "W" \/ ch = "A" \/ ch = "S" \/ ch = "D"
             THEN PumpWin(Tail(k), Append(q, ch))
             ELSE PumpWin(Tail(k), q)

\* Fault: the decrement is not clamped to the floor
SpeedUpUnclamped(t) == t - TICK_DECR_MS

\* Fault: the interval is reset to the base value
SpeedUpReset(t) == BASE_TICK_MS

\* std::max(MIN_TICK_MS, tick_ms - TICK_DECR_MS)
SpeedUp(t) == IF t - TICK_DECR_MS < MIN_TICK_MS THEN MIN_TICK_MS ELSE t - TICK_DECR_MS

MainInit ==
    /\ pc = "pump"
    /\ kbd = <<>>
    /\ typed = 0
    /\ in_q = <<>>
    /\ running = TRUE
    /\ tick_ms = BASE_TICK_MS
    /\ next_tick = 0
    /\ slept = FALSE
    /\ applied = 0
    /\ lag0 = 0
    /\ batch = <<>>

gsame == UNCHANGED <<gvars, sounds, ticks, log>>

\* The user types a key
Type ==
    /\ typed < MaxKeys
    /\ pc # "exit"
    /\ \E ch \in TypedKeys : kbd' = Append(kbd, ch)
    /\ typed' = typed + 1
    /\ UNCHANGED <<gvars, sounds, ticks, log, call, pc, in_q, running, tick_ms, next_tick,
                   slept, applied, lag0, batch>>

\* while (running.load()) { pump keys   (raw)
PumpKeysRaw ==
    /\ variant = "raw"
    /\ pc = "pump"
    /\ IF ~running
       THEN /\ pc' = "exit"
            /\ UNCHANGED <<kbd, in_q, running>>
       ELSE LET res == PumpRaw(kbd, in_q)
            IN  /\ kbd' = res.kbd
                /\ in_q' = res.q
                /\ running' = IF res.stop THEN FALSE ELSE running
                /\ pc' = "apply"
    /\ call' = [op |-> "pump"]
    /\ gsame
    /\ UNCHANGED <<typed, tick_ms, next_tick, slept, applied, lag0, batch>>

\* while (true) { pump keys   (win)
PumpKeysWin ==
    /\ variant = "win"
    /\ pc = "pump"
    /\ LET res == PumpWin(kbd, in_q)
       IN  /\ ~res.waits
           /\ kbd' = res.kbd
           /\ in_q' = res.q
           /\ pc' = IF res.quit THEN "exit" ELSE "apply"
    /\ call' = [op |-> "pump"]
    /\ gsame
    /\ UNCHANGED <<typed, running, tick_ms, next_tick, slept, applied, lag0, batch>>

\* apply input: one key of in_q
ApplyInput ==
    /\ pc = "apply"
    /\ pc' = "sched"
    /\ IF in_q = <<>>
       THEN /\ call' = [op |-> "apply"]
            /\ UNCHANGED <<gvars, sounds, ticks, log, in_q, running, applied>>
       ELSE /\ in_q' = Tail(in_q)
            /\ IF variant = "raw" /\ Head(in_q) = "Q"
               THEN /\ running' = FALSE
                    /\ call' = [op |-> "apply"]
                    /\ UNCHANGED <<gvars, sounds, ticks, log, applied>>
               ELSE /\ change_dir(Head(in_q))
                    /\ applied' = applied + 1
                    /\ UNCHANGED running
    /\ UNCHANGED <<kbd, typed, tick_ms, next_tick, slept, lag0, batch>>

\* now = steady_clock::now(); if (now >= next_tick) ... else sleep_until.
\* Only now - next_tick matters to main(), so times are kept relative to the
\* latest reading of now: now is 0 and next_tick is the distance to the next
\* boundary (<= 0 when it has passed).  e is the time elapsed since the
\* previous reading: at least up to next_tick after a sleep_until(next_tick),
\* plus up to `stalls` delays of StallStep ms.
Sched(stalls) ==
    /\ pc = "sched"
    /\ \E j \in 0..stalls :
          LET e == (IF slept THEN next_tick ELSE 0) + j * StallStep
              nt == next_tick - e
          IN  /\ next_tick' = nt
              /\ IF 0 >= nt
                 THEN pc' = "tick"
                 ELSE pc' = "sleep"
              /\ lag0' = 0 - nt
              /\ batch' = <<>>
    /\ slept' = FALSE
    /\ call' = [op |-> "sched"]
    /\ gsame
    /\ UNCHANGED <<kbd, typed, in_q, running, tick_ms, applied>>

\* while (now >= next_tick) { game.update();
Tick(cand) ==
    /\ pc = "tick"
    /\ 0 >= next_tick
    /\ update(cand)
    /\ pc' = "adv"
    /\ applied' = 0
    /\ batch' = Append(batch, next_tick)
    /\ UNCHANGED <<kbd, typed, in_q, running, tick_ms, next_tick, slept, lag0>>

\* Fault: next_tick = now + TICK, the missed intervals are skipped
AdvanceRawFromNow ==
    /\ variant = "raw"
    /\ pc = "adv"
    /\ next_tick' = 0 + TICK
    /\ pc' = "tick"
    /\ call' = [op |-> "adv"]
    /\ UNCHANGED <<gvars, sounds, ticks, log>>
    /\ UNCHANGED <<kbd, typed, in_q, running, tick_ms, slept, applied, lag0, batch>>

\* next_tick += TICK;   (raw)
AdvanceRaw ==
    /\ variant = "raw"
    /\ pc = "adv"
    /\ next_tick' = next_tick + TICK
    /\ pc' = "tick"
    /\ call' = [op |-> "adv"]
    /\ gsame
    /\ UNCHANGED <<kbd, typed, in_q, running, tick_ms, slept, applied, lag0, batch>>

\* Fault: the trigger is read and not cleared
AdvanceWinKeepsTrigger ==
    /\ variant = "win"
    /\ pc = "adv"
    /\ LET t == IF level_up_trigger THEN SpeedUp(tick_ms) ELSE tick_ms
       IN  /\ tick_ms' = t
           /\ next_tick' = next_tick + t
    /\ pc' = "tick"
    /\ call' = [op |-> "adv"]
    /\ UNCHANGED <<gvars, sounds, ticks, log>>
    /\ UNCHANGED <<kbd, typed, in_q, running, slept, applied, lag0, batch>>

\* if (game.level_up_trigger) { ... } next_tick += current_tick;   (win)
AdvanceWin ==
    /\ variant = "win"
    /\ pc = "adv"
    /\ LET t == IF level_up_trigger THEN SpeedUp(tick_ms) ELSE tick_ms
       IN  /\ tick_ms' = t
           /\ next_tick' = next_tick + t
    /\ level_up_trigger' = FALSE
    /\ pc' = "tick"
    /\ call' = [op |-> "adv"]
    /\ UNCHANGED <<variant, snake, dir, food, game_over, score, consuming,
                   chomp_frames, poop_to_drop, poops, level, level_flash,
                   sounds, ticks, log>>
    /\ UNCHANGED <<kbd, typed, in_q, running, slept, applied, lag0, batch>>

\* } game.render();
Render ==
    /\ pc = "tick"
    /\ ~(0 >= next_tick)
    /\ pc' = "pump"
    /\ call' = [op |-> "render"]
    /\ log' = [log EXCEPT !.unrendered = 0]
    /\ UNCHANGED <<gvars, sounds, ticks>>
    /\ UNCHANGED <<kbd, typed, in_q, running, tick_ms, next_tick, slept, applied,
                   lag0, batch>>

\* this_thread::sleep_until(next_tick);
Sleep ==
    /\ pc = "sleep"
    /\ slept' = TRUE
    /\ pc' = "pump"
    /\ call' = [op |-> "sleep"]
    /\ gsame
    /\ UNCHANGED <<kbd, typed, in_q, running, tick_ms, next_tick, applied, lag0, batch>>

InitMain ==
    /\ variant \in Variants
    /\ GameInit(AheadCells(InitSnake[1], "Right"))
    /\ MainInit

TickMain ==
    /\ ticks < MaxLoopTicks
    /\ Tick(AheadCells(NextHead(snake[1], dir), dir))

SchedMain == Sched(MaxStalls)

NextMain ==
    \/ Type
    \/ PumpKeysRaw
    \/ PumpKeysWin
    \/ ApplyInput
    \/ SchedMain
    \/ TickMain
    \/ AdvanceRaw
    \/ AdvanceWin
    \/ Render
    \/ Sleep

SpecMain == InitMain /\ [][NextMain]_vars

-----------------------------------------------------------------------------
(* main() with the first Food on any side of the head: when it is not      *)
(* straight ahead the snake moves on its first ticks                        *)

InitKeys ==
    /\ variant \in Variants
    /\ GameInit(NearCells(InitSnake[1]))
    /\ MainInit

SpecKeys == InitKeys /\ [][NextMain]_vars

-----------------------------------------------------------------------------
(* main() of snake_win.cpp on a long run: nobody types, and the Food lands *)
(* ahead of the snake, so that the score climbs through the level-ups      *)

InitLevels ==
    /\ variant = "win"
    /\ GameInit(AheadCells(InitSnake[1], "Right"))
    /\ MainInit

TickLevels ==
    /\ ticks < MaxRunTicks
    /\ Tick(AheadCells(NextHead(snake[1], dir), dir))

SchedLevels == Sched(1)

NextLevels ==
    \/ PumpKeysWin
    \/ ApplyInput
    \/ SchedLevels
    \/ TickLevels
    \/ AdvanceWin
    \/ Render
    \/ Sleep

SpecLevels == InitLevels /\ [][NextLevels]_vars

-----------------------------------------------------------------------------
(* The Game object on a longer run: the player turns the snake a few times, *)
(* and the snake eats, leaves its trail and comes back to it                *)

InitTrail ==
    /\ variant \in Variants
    /\ GameInit(AheadCells(InitSnake[1], "Right"))
    /\ pc = "game"
    /\ kbd = <<>>
    /\ typed = 0
    /\ in_q = <<>>
    /\ running = TRUE
    /\ tick_ms = BASE_TICK_MS
    /\ next_tick = 0
    /\ slept = FALSE
    /\ applied = 0
    /\ lag0 = 0
    /\ batch = <<>>

\* a key that turns the snake is typed and handed to change_dir()
Turn ==
    /\ typed < MaxTurns
    /\ \E key \in Keys : change_dir(key) /\ dir' # dir
    /\ typed' = typed + 1
    /\ UNCHANGED <<pc, kbd, in_q, running, tick_ms, next_tick, slept, applied,
                   lag0, batch>>

UpdateTrail ==
    /\ ticks < MaxTrailTicks
    /\ log.steps < MaxTrailMoves \/ (consuming /\ ~game_over)
    /\ update(AheadCells(NextHead(snake[1], dir), dir))
    /\ UNCHANGED mvars

NextTrail == Turn \/ UpdateTrail

SpecTrail == InitTrail /\ [][NextTrail]_vars

-----------------------------------------------------------------------------
(* The Game object left alone: update() is called tick after tick and       *)
(* change_dir() never                                                        *)

UpdateIdle ==
    /\ ticks < MaxIdleTicks
    /\ update(NearCells(NextHead(snake[1], dir)))
    /\ UNCHANGED mvars

SpecIdle == Init /\ [][UpdateIdle]_vars

-----------------------------------------------------------------------------
(* wrap() alone, called on positions on the board and up to MaxOff cells    *)
(* off it                                                                    *)

WrapInputs == [r : (0 - MaxOff)..(ROWS - 1 + MaxOff), c : (0 - MaxOff)..(COLS - 1 + MaxOff)]

InitWrap ==
    /\ variant \in Variants
    /\ GameInit(AheadCells(InitSnake[1], "Right"))
    /\ pc = "wrap"
    /\ kbd = <<>>
    /\ typed = 0
    /\ in_q = <<>>
    /\ running = TRUE
    /\ tick_ms = BASE_TICK_MS
    /\ next_tick = 0
    /\ slept = FALSE
    /\ applied = 0
    /\ lag0 = 0
    /\ batch = <<>>

\* Point q = wrap(p);
CallWrap ==
    /\ \E p \in WrapInputs : call' = [op |-> "wrap", arg |-> p, ret |-> Wrap(p)]
    /\ UNCHANGED <<gvars, sounds, ticks, log, mvars>>

SpecWrap == InitWrap /\ [][CallWrap]_vars

-----------------------------------------------------------------------------
(* next_head() alone, called once on any cell of the board in any direction  *)

\* Point nh = next_head(head);   with dir = d
CallNextHead ==
    /\ call.op # "next_head"
    /\ \E h \in Board, d \in Dirs :
           call' = [op |-> "next_head", head |-> h, dir |-> d, ret |-> NextHead(h, d)]
    /\ UNCHANGED <<gvars, sounds, ticks, log, mvars>>

SpecStep == InitWrap /\ [][CallNextHead]_vars

-----------------------------------------------------------------------------
(* Properties *)

\* The vocabulary of the properties, defined apart from the operators above
SnakeCells == {snake[i] : i \in DOMAIN snake}
IsUpdate == ticks' = ticks + 1
Advance(p, d) ==
    CASE d = "Up"    -> Point((p.r - 1) % ROWS, p.c)
      [] d = "Down"  -> Point((p.r + 1) % ROWS, p.c)
      [] d = "Left"  -> Point(p.r, (p.c - 1) % COLS)
      [] d = "Right" -> Point(p.r, (p.c + 1) % COLS)
Opposite(d) ==
    CASE d = "Up" -> "Down" [] d = "Down" -> "Up"
      [] d = "Left" -> "Right" [] d = "Right" -> "Left"
KeyDir(k) ==
    CASE k = "W" -> "Up" [] k = "S" -> "Down" [] k = "A" -> "Left" [] k = "D" -> "Right"
\* The tick completes the eating sub-state
Finalizing == consuming /\ chomp_frames <= 1
\* The tick tests the prospective head for self-collision, and it collides
Colliding ==
    /\ ~game_over
    /\ Finalizing \/ (~consuming /\ Advance(snake[1], dir) # food)
    /\ Advance(snake[1], dir) \in SnakeCells
\* The tick moves the snake: the prospective head is neither the Food nor a
\* snake cell, and no bite animation is running
Moving ==
    /\ ~game_over /\ ~consuming
    /\ Advance(snake[1], dir) # food
    /\ Advance(snake[1], dir) \notin SnakeCells

\* The deposits one tick older, those whose lifetime ends removed
Aged(ps) ==
    LET live == {i \in DOMAIN ps : ps[i].ttl - 1 > 0}
        RECURSIVE Keep(_)
        Keep(i) == IF i > Len(ps) THEN <<>>
                   ELSE (IF i \in live THEN <<[p |-> ps[i].p, ttl |-> ps[i].ttl - 1]>>
                         ELSE <<>>) \o Keep(i + 1)
    IN  Keep(1)

\* C1: in every reachable state of either variant the snake is non-empty and
\* has at least 3 cells.
C1_MinLength == snake # <<>> /\ Len(snake) >= 3
\* A move after a growth: the head was pushed and the tail popped at length 4
W_C1 == call.op = "update" /\ call.path = "drop" /\ Len(snake) = 4

\* C2: in every reachable state the Food position is not a cell of the snake.
C2_FoodOffSnake == food \notin SnakeCells
\* The eating sub-state has just completed and a new Food has been placed
W_C2 == call.op = "update" /\ call.path = "grow" /\ score = 10 /\ food \notin SnakeCells

\* C3: an update() sets game_over if and only if it tests the prospective head
\* (a normal tick whose prospective head is not the Food, or the tick that
\* finalizes the eating sub-state) and that head is a cell of the snake, the
\* tail included; nothing else sets game_over.
C3_SelfCollisionOnly ==
    [][(~game_over /\ game_over') <=> (IsUpdate /\ Colliding)]_vars
\* The head has run into the tail cell on a normal tick
W_C3 ==
    /\ game_over
    /\ call.op = "update" /\ call.path = "collide"
    /\ Advance(snake[1], dir) = snake[Len(snake)]

\* C4 as stated: on a colliding tick the snake, the score, the level, the Food,
\* poop_to_drop and the deposits with their lifetimes are unchanged, only
\* game_over changes.
C4_NothingButGameOver ==
    [][(IsUpdate /\ Colliding) =>
          UNCHANGED <<snake, score, level, food, poop_to_drop, poops, dir,
                      consuming, chomp_frames, level_flash, level_up_trigger>>]_vars

\* C4 amended: on a colliding tick there is no growth, no scoring, no new
\* deposit and no sound: the snake, the score, the level, the Food and
\* poop_to_drop are unchanged, while the deposits age by one tick as on every
\* tick (the eating countdown and, on Windows, level_flash count down too).
C4_NoGrowthScoreDrop ==
    [][(IsUpdate /\ Colliding) =>
          /\ UNCHANGED <<snake, score, level, food, poop_to_drop, dir, consuming,
                         level_up_trigger>>
          /\ poops' = Aged(poops)
          /\ sounds' = <<>>
          /\ chomp_frames' = IF consuming THEN chomp_frames - 1 ELSE chomp_frames
          /\ level_flash' = IF variant = "win" /\ level_flash > 0
                            THEN level_flash - 1 ELSE level_flash]_vars
\* A collision while deposits lie on the board
W_C4 ==
    /\ game_over
    /\ call.op = "update" /\ call.path = "collide"
    /\ poops # <<>>

\* C5: once game_over is true it stays true, and every later update() leaves
\* the snake, the Food, the score, the level, the eating flag and countdown,
\* the deposits and poop_to_drop unchanged.
C5_GameOverTerminal ==
    [][game_over =>
          /\ game_over'
          /\ IsUpdate => UNCHANGED <<snake, food, score, level, consuming,
                                     chomp_frames, poops, poop_to_drop>>]_vars
\* update() was called after the game was over
W_C5 == game_over /\ call.op = "update" /\ call.path = "over"

\* C6: change_dir(key) leaves dir unchanged when the key asks for the exact
\* opposite of dir, sets dir to the direction asked for otherwise, and leaves
\* dir unchanged for a key other than W/A/S/D.
C6_ChangeDir ==
    [][call'.op = "change_dir" =>
          LET k == call'.key
          IN  IF k \in {"W", "A", "S", "D"}
              THEN dir' = (IF KeyDir(k) = Opposite(dir) THEN dir ELSE KeyDir(k))
              ELSE dir' = dir]_vars
\* A reversal was asked for and rejected
W_C6 == call.op = "change_dir" /\ call.key = "A" /\ dir = "Right"

\* C7: between two consecutive update() calls of main(), change_dir() is
\* applied at most once.
C7_OnceBetweenUpdates == applied <= 1

\* C8: the scheduler never skips ticks: when now >= next_tick the catch-up loop
\* runs update() once at each passed boundary, from the first one on, adding
\* the current interval to next_tick each time, and ends with next_tick > now;
\* when no boundary has passed it runs no update().
C8_NoSkippedTicks ==
    /\ [](call.op = "render" =>
            /\ next_tick > 0
            /\ Len(batch) >= 1
            /\ batch[1] = 0 - lag0
            /\ \A i \in DOMAIN batch : batch[i] <= 0
            /\ next_tick = batch[Len(batch)] + (IF variant = "win" THEN tick_ms ELSE TICK)
            /\ variant = "raw" => Len(batch) = (lag0 \div TICK) + 1)
    /\ [](call.op = "sleep" => next_tick > 0 /\ batch = <<>>)
    /\ [][pc = "adv" /\ pc' = "tick" =>
            next_tick' = next_tick + (IF variant = "win" THEN tick_ms' ELSE TICK)]_vars
\* Two boundaries had passed and update() ran twice before the render
W_C8 == call.op = "render" /\ Len(batch) = 2 /\ lag0 >= TICK

\* C9: every update() call requests at most one sound.
C9_OneSoundPerTick == Len(sounds) <= 1

\* C10: in the Windows main loop MIN_TICK_MS <= tick_ms <= BASE_TICK_MS.
C10_TickFloor == MIN_TICK_MS <= tick_ms /\ tick_ms <= BASE_TICK_MS
\* The fifth level-up has clamped the interval to the floor
W_C10 == tick_ms = MIN_TICK_MS /\ level = 6 /\ call.op = "adv"

\* C11: in the Windows main loop the update() that completes an eating
\* sub-state with the score reaching a multiple of 100 raises level by exactly
\* 1 and sets level_up_trigger, and no other step does; the flag is false at
\* the start of every update(); the step that clears it replaces tick_ms by
\* max(MIN_TICK_MS, tick_ms - TICK_DECR_MS), and tick_ms changes in no other
\* step: one decrement per level-up, applied before the next update().
C11_LevelUpOnce ==
    /\ [][IsUpdate => ~level_up_trigger]_vars
    /\ [][IsUpdate =>
            IF ~game_over /\ Finalizing /\ ~Colliding /\ (score + 10) % 100 = 0
            THEN level' = level + 1 /\ level_up_trigger'
            ELSE level' = level /\ ~level_up_trigger']_vars
    /\ [][~IsUpdate => level' = level /\ (level_up_trigger' => level_up_trigger)]_vars
    /\ [][level_up_trigger /\ ~level_up_trigger' =>
            tick_ms' = (IF tick_ms - TICK_DECR_MS > MIN_TICK_MS
                        THEN tick_ms - TICK_DECR_MS ELSE MIN_TICK_MS)]_vars
    /\ [][tick_ms' # tick_ms => level_up_trigger /\ ~level_up_trigger']_vars
\* The first level-up has been applied by the main loop
W_C11 ==
    /\ call.op = "adv" /\ score = 100 /\ level = 2 /\ ~level_up_trigger
    /\ tick_ms = BASE_TICK_MS - TICK_DECR_MS

\* C12: the update() that finds the prospective head on the Food enters the
\* eating sub-state and leaves the snake where it is; each of the next
\* CHOMP_TOTAL - 1 update() calls leaves the snake and the score as they are
\* and stays in the sub-state; the CHOMP_TOTAL-th ends it, and unless that
\* tick collides the snake is one cell longer and the score 10 higher than
\* when the eating started.
C12_EatingLasts ==
    /\ [](consuming /\ ~game_over => ticks - log.eat_tick \in 0..(CHOMP_TOTAL - 1))
    /\ [][IsUpdate /\ ~game_over /\ ~consuming /\ Advance(snake[1], dir) = food =>
            consuming' /\ ~game_over' /\ snake' = snake /\ score' = score]_vars
    /\ [][IsUpdate /\ ~game_over /\ consuming /\ ticks' - log.eat_tick < CHOMP_TOTAL =>
            consuming' /\ ~game_over' /\ snake' = snake /\ score' = score]_vars
    /\ [][IsUpdate /\ ~game_over /\ consuming /\ ticks' - log.eat_tick = CHOMP_TOTAL =>
            IF Advance(snake[1], dir) \in SnakeCells
            THEN game_over'
            ELSE /\ ~consuming' /\ ~game_over'
                 /\ Len(snake') = log.eat_len + 1
                 /\ score' = log.eat_score + 10]_vars
\* The initial snake has eaten its first Food: length 3 -> 4, score 0 -> 10
W_C12 ==
    /\ call.op = "update" /\ call.path = "grow"
    /\ ticks - log.eat_tick = CHOMP_TOTAL
    /\ log.eat_len = 3 /\ Len(snake) = 4 /\ log.eat_score = 0 /\ score = 10

\* C13: poop_to_drop stays within 0..3 and is 3 less the number of moves made
\* since the latest growth; each of the first 3 moves after a growth appends
\* one deposit, at the cell the tail leaves on that move, to the aged
\* deposits; every other update() only ages the deposits (none when the game
\* is over), and no other operation touches them.
C13_ThreeDrops ==
    /\ [](poop_to_drop \in 0..3 /\ poop_to_drop = 3 - log.moves)
    /\ [][IsUpdate =>
            IF game_over THEN poops' = poops
            ELSE IF Moving /\ log.moves < 3
            THEN /\ poops' = Append(Aged(poops),
                                    [p |-> snake[Len(snake)], ttl |-> POOP_TTL])
                 /\ snake[Len(snake)] \notin {snake'[i] : i \in DOMAIN snake'}
            ELSE poops' = Aged(poops)]_vars
    /\ [][~IsUpdate => poops' = poops]_vars
\* The third move after the first growth has dropped the third deposit
W_C13 ==
    /\ call.op = "update" /\ call.path = "drop"
    /\ log.eaten = 1 /\ log.moves = 3 /\ poop_to_drop = 0
    /\ Len(poops) = 3 /\ poops[3].ttl = POOP_TTL

\* C14: whenever the game is not over and poop_to_drop is back to 0, the
\* deposits dropped so far are 3 for each Food eaten.
C14_ThreePerFood ==
    ~game_over /\ poop_to_drop = 0 => log.dropped = 3 * log.eaten

\* C15: in main() every update() is followed by a render() before the next
\* update(): at most one update() call is waiting for its render().
C15_RenderPerUpdate == log.unrendered <= 1

\* C16: for every pair of integers (r, c) wrap returns (r mod ROWS, c mod COLS).
C16_WrapIsModulo ==
    call.op = "wrap" =>
        call.ret = [r |-> call.arg.r % ROWS, c |-> call.arg.c % COLS]

\* C17: every snake cell, the Food and every deposit lie on the board:
\* 0 <= row < ROWS and 0 <= column < COLS.
C17_Normalized ==
    LET OnBoard(p) == 0 <= p.r /\ p.r < ROWS /\ 0 <= p.c /\ p.c < COLS
    IN  /\ \A i \in DOMAIN snake : OnBoard(snake[i])
        /\ OnBoard(food)
        /\ \A i \in DOMAIN poops : OnBoard(poops[i].p)
\* The head has left the board through the top row and come back in the last
W_C17 ==
    /\ call.op = "update" /\ call.path \in {"move", "drop"}
    /\ snake[1].r = ROWS - 1 /\ snake[2].r = 0

\* C18: no two entries of poops lie on the same cell.
C18_OneDepositPerCell ==
    \A i, j \in DOMAIN poops : i # j => poops[i].p # poops[j].p
\* The snake has come back along its trail: the tail drops a deposit of the
\* second Food on the cell where a deposit of the first Food had been dropped
W_C18 ==
    /\ call.op = "update" /\ call.path = "drop"
    /\ log.eaten = 2 /\ log.dropped = 5 /\ log.eat_tick = 16 /\ ticks = MaxTrailTicks
    /\ poops[Len(poops)].p = InitSnake[2]

\* C19: a deposit that has reached the end of its life is removed with a
\* penalty: the update() that removes it charges the snake with something, so
\* it does not leave the snake, the score, the deposits still to drop, the
\* Food and the state of the game all as they were.
C19_ExpiryPenalty ==
    [][IsUpdate /\ ~game_over /\ (\E i \in DOMAIN poops : poops[i].ttl <= 1) =>
         ~(UNCHANGED <<snake, score, poop_to_drop, food, game_over, consuming,
                       level, dir>>)]_vars

\* C20: when an update() moves the head onto a cell that holds a deposit, no
\* deposit lies on that cell after the update().
C20_DepositEaten ==
    [][IsUpdate /\ snake'[1] # snake[1]
         /\ (\E i \in DOMAIN poops : poops[i].p = snake'[1]) =>
         \A j \in DOMAIN poops' : poops'[j].p # snake'[1]]_vars

\* C21: a snake whose direction nobody changes is forced to grow without
\* eating: by the end of a run of MaxIdleTicks ticks with no change_dir() at
\* all it is longer than its 3 cells plus one per Food eaten.
C21_IdleGrowth ==
    ticks = MaxIdleTicks /\ ~game_over => Len(snake) > 3 + log.eaten

\* C22: a sound requested inside update() is fire-and-forget: the update()
\* spends no time waiting for its sounds to play.
C22_SoundsNotAwaited == SoundWait(variant, sounds) = 0

\* C23: on a tick that is neither part of the eating sub-state, nor entering
\* it, nor colliding, the new snake is the prospective head followed by the
\* old snake without its last cell; the length, the score and the Food stay.
C23_StandardMove ==
    [][IsUpdate /\ Moving =>
         /\ snake' = <<Advance(snake[1], dir)>> \o SubSeq(snake, 1, Len(snake) - 1)
         /\ Len(snake') = Len(snake)
         /\ score' = score
         /\ food' = food]_vars
\* The initial snake has turned up and made its first move
W_C23 ==
    /\ call.op = "update" /\ call.path = "move" /\ ticks = 1 /\ dir = "Up"
    /\ snake = <<[r |-> 9, c |-> 40], [r |-> 10, c |-> 40], [r |-> 10, c |-> 39]>>

\* C24: the update() whose prospective head is the Food enters the eating
\* sub-state (consuming, countdown CHOMP_TOTAL) and does not move: the snake,
\* the score, the Food, the direction, poop_to_drop and the level are
\* unchanged, the game is not over, no sound is requested and the deposits
\* only age.
C24_EnterOnly ==
    [][IsUpdate /\ ~game_over /\ ~consuming /\ Advance(snake[1], dir) = food =>
         /\ consuming' /\ chomp_frames' = CHOMP_TOTAL
         /\ UNCHANGED <<snake, score, food, dir, poop_to_drop, level, game_over>>
         /\ poops' = Aged(poops)
         /\ sounds' = <<>>]_vars
\* The second Food is entered while deposits of the first are still owed
W_C24 ==
    /\ call.op = "update" /\ call.path = "enter"
    /\ consuming /\ chomp_frames = CHOMP_TOTAL
    /\ score = 10 /\ poop_to_drop > 0 /\ Len(poops) > 0

\* C25: the update() that completes the eating sub-state tests the cell one
\* step from the current head in the current direction against the snake.  If
\* it collides the game is over and nothing is gained; otherwise, in that one
\* update(), that cell becomes the head and the tail stays, the score rises by
\* 10, the level rises by 1 on Windows when the score reaches a multiple of
\* 100, the new Food lies off the grown snake, poop_to_drop is 3 and the
\* eating sub-state is left.
C25_Finalize ==
    [][IsUpdate /\ ~game_over /\ Finalizing =>
         LET nh == Advance(snake[1], dir)
         IN  IF nh \in SnakeCells
             THEN /\ game_over'
                  /\ UNCHANGED <<snake, score, food, poop_to_drop, level>>
             ELSE /\ snake' = <<nh>> \o snake
                  /\ score' = score + 10
                  /\ level' = IF variant = "win" /\ (score + 10) % 100 = 0
                              THEN level + 1 ELSE level
                  /\ food' \notin {snake'[i] : i \in DOMAIN snake'}
                  /\ poop_to_drop' = 3
                  /\ ~consuming' /\ ~game_over']_vars
\* The player turned up during the bite animation: the snake has grown upwards,
\* not onto the cell where the Food was
W_C25 ==
    /\ call.op = "update" /\ call.path = "grow" /\ dir = "Up"
    /\ Len(snake) = 4 /\ snake[1] = [r |-> 9, c |-> 40] /\ score = 10
    /\ poop_to_drop = 3 /\ ~consuming

\* C26: in the Windows main loop tick_ms never increases; right after an
\* update() that has left level_up_trigger set it becomes
\* max(MIN_TICK_MS, tick_ms - TICK_DECR_MS), right after any other update() it
\* stays as it is, and no other step changes it; the interval added to
\* next_tick is the new tick_ms.
C26_IntervalRule ==
    /\ [][tick_ms' <= tick_ms]_vars
    /\ [][pc = "adv" =>
            /\ tick_ms' = (IF ~level_up_trigger THEN tick_ms
                           ELSE IF tick_ms - TICK_DECR_MS < MIN_TICK_MS THEN MIN_TICK_MS
                           ELSE tick_ms - TICK_DECR_MS)
            /\ next_tick' = next_tick + tick_ms']_vars
    /\ [][pc # "adv" => tick_ms' = tick_ms]_vars
\* The second level-up has shortened the interval a second time
W_C26 ==
    /\ call.op = "adv" /\ score = 200 /\ level = 3
    /\ tick_ms = BASE_TICK_MS - 2 * TICK_DECR_MS

\* C27: in the Windows variant level = 1 + score / 100 (integer division) in
\* every state, and level changes only in an update() that completes an
\* eating sub-state.
C27_LevelFromScore ==
    /\ [](variant = "win" => level = 1 + score \div 100)
    /\ [][level' # level => IsUpdate /\ ~game_over /\ Finalizing]_vars
\* Well into the third level, 10 points short of the fourth
W_C27 == variant = "win" /\ score = 290 /\ level = 3 /\ call.op = "update"

\* C28: for every cell (r, c) of the board and every direction next_head
\* returns ((r + dr) mod ROWS, (c + dc) mod COLS), (dr, dc) being the unit step
\* of the direction: a step off an edge comes back in on the opposite edge of
\* the same row or column.
C28_StepWraps ==
    call.op = "next_head" =>
        LET h == call.head
            d == call.dir
            dr == CASE d = "Up" -> -1 [] d = "Down" -> 1 [] OTHER -> 0
            dc == CASE d = "Left" -> -1 [] d = "Right" -> 1 [] OTHER -> 0
        IN  /\ call.ret = [r |-> (h.r + dr) % ROWS, c |-> (h.c + dc) % COLS]
            /\ d = "Up" /\ h.r = 0 => call.ret = [r |-> ROWS - 1, c |-> h.c]
            /\ d = "Down" /\ h.r = ROWS - 1 => call.ret = [r |-> 0, c |-> h.c]
            /\ d = "Left" /\ h.c = 0 => call.ret = [r |-> h.r, c |-> COLS - 1]
            /\ d = "Right" /\ h.c = COLS - 1 => call.ret = [r |-> h.r, c |-> 0]
\* A step to the right off the last column of the top row
W_C28 ==
    /\ call.op = "next_head" /\ call.dir = "Right"
    /\ call.head = [r |-> 0, c |-> COLS - 1] /\ call.ret = [r |-> 0, c |-> 0]

\* C29: a deposit is dropped with a lifetime of POOP_TTL and fades: every
\* update() that starts while the game is not over, eating ticks included,
\* takes 1 off the lifetime of every deposit, keeps those with a lifetime left
\* (so for POOP_TTL - 1 such calls) and removes those at the end of theirs
\* (by the POOP_TTL-th call); between ticks every lifetime is within
\* 1..POOP_TTL, and once the game is over no deposit ages or disappears.
C29_DepositLifetime ==
    /\ [](\A i \in DOMAIN poops : poops[i].ttl \in 1..POOP_TTL)
    /\ [][IsUpdate /\ ~game_over =>
            LET kept  == {i \in DOMAIN poops : poops[i].ttl > 1}
                older == SelectSeq(poops', LAMBDA q : q.ttl < POOP_TTL)
            IN  /\ Len(older) = Cardinality(kept)
                /\ \A i \in kept : \E j \in DOMAIN older :
                       older[j] = [p |-> poops[i].p, ttl |-> poops[i].ttl - 1]
                /\ \A j \in DOMAIN poops' :
                       poops'[j].ttl = POOP_TTL => j = Len(poops') /\ Moving]_vars
    /\ [][game_over => poops' = poops]_vars
\* The first deposit has gone with its POOP_TTL-th update() while the second,
\* dropped one tick after it, is at the last tick of its lifetime
W_C29 ==
    /\ ~game_over /\ call.op = "update"
    /\ log.dropped >= 3 /\ Len(poops) = log.dropped - 1
    /\ poops[1].ttl = 1

\* C30: a deposit is created only on a cell free of the snake: the update()
\* that drops a deposit puts it on the cell that was the tail before the move,
\* and after the update() no cell of the snake is that cell.
C30_DropOnFreeCell ==
    [][IsUpdate /\ poops' # <<>> /\ poops'[Len(poops')].ttl = POOP_TTL /\ ~game_over =>
          /\ poops'[Len(poops')].p = snake[Len(snake)]
          /\ \A i \in DOMAIN snake' : snake'[i] # poops'[Len(poops')].p]_vars
\* A deposit dropped by a snake that has grown twice and has turned: its head
\* and its tail are on different rows and columns
W_C30 ==
    /\ call.op = "update" /\ call.path = "drop"
    /\ Len(snake) = 5 /\ poops[Len(poops)].ttl = POOP_TTL
    /\ snake[1].r # snake[5].r /\ snake[1].c # snake[5].c

\* C31: in every reachable state the cells of the snake are pairwise distinct,
\* right after the growth of the finalizing tick too.
C31_NoOverlap ==
    \A i, j \in DOMAIN snake : i # j => snake[i] # snake[j]
\* The snake has just grown to 5 cells after a turn: its head and its tail are
\* on different rows and columns
W_C31 ==
    /\ call.op = "update" /\ call.path = "grow"
    /\ Len(snake) = 5
    /\ snake[1].r # snake[5].r /\ snake[1].c # snake[5].c

\* C32: in every reachable state score = 10 * (length of the snake - 3): the
\* score changes only in an update() that grows the snake by one cell, by 10,
\* and the length of the snake changes in no other step.
C32_ScoreIsGrowth ==
    /\ [](score = 10 * (Len(snake) - 3))
    /\ [][score' # score \/ Len(snake') # Len(snake) =>
            /\ IsUpdate
            /\ Len(snake') = Len(snake) + 1
            /\ score' = score + 10]_vars
\* The second growth: 5 cells and 20 points
W_C32 ==
    /\ call.op = "update" /\ call.path = "grow"
    /\ Len(snake) = 5 /\ score = 20

\* C33: instant self-reversal is impossible in the running program: whatever
\* the timing of the key presses and of the iterations of main(), no update()
\* that steps the head finds the direction reversed, that is, pointing from the
\* head to the snake's own second cell.
C33_NoReversal ==
    [][IsUpdate /\ ~game_over /\ (consuming => chomp_frames <= 1) =>
          Advance(snake[1], dir) # snake[2]]_vars

\* C34: when dir at the finalizing tick is what it was at the tick that
\* entered the eating sub-state (no direction change was accepted in between),
\* the finalizing tick does not end the game: the prospective head is the Food
\* cell, which is no cell of the snake, and the snake grows onto it.
C34_StraightBiteIsSafe ==
    [][IsUpdate /\ ~game_over /\ Finalizing /\ dir = log.eat_dir =>
          /\ Advance(snake[1], dir) = food
          /\ food \notin SnakeCells
          /\ ~game_over'
          /\ snake'[1] = food]_vars
\* The second Food eaten straight on by a snake that has turned before
W_C34 ==
    /\ call.op = "update" /\ call.path = "grow"
    /\ log.eaten = 2 /\ dir = log.eat_dir
    /\ snake[1] = Advance(snake[2], dir)
    /\ snake[5].r # snake[1].r /\ snake[5].c # snake[1].c

\* C35 as stated: Food is eaten only by moving onto it: every tick that
\* completes the eating sub-state without a collision puts the new head on the
\* Food cell, which has not moved since the sub-state was entered, whatever
\* direction changes were accepted meanwhile.
C35_EatenWhereItLies ==
    /\ [][IsUpdate /\ consuming /\ ~Finalizing => food' = food]_vars
    /\ [][~IsUpdate => food' = food]_vars
    /\ [][IsUpdate /\ ~game_over /\ Finalizing /\ ~game_over' => snake'[1] = food]_vars

\* C35 amended: the Food does not move during the eating sub-state, and the
\* tick that completes it without a collision puts the new head on the cell
\* next to the old head in the direction of that tick: the Food cell when dir
\* is what it was on the entering tick, another cell when it is not.
C35_EatenAhead ==
    /\ [][IsUpdate /\ consuming /\ ~Finalizing => food' = food]_vars
    /\ [][~IsUpdate => food' = food]_vars
    /\ [][IsUpdate /\ ~game_over /\ Finalizing /\ ~game_over' =>
            /\ snake'[1] = Advance(snake[1], dir)
            /\ food = Advance(snake[1], log.eat_dir)
            /\ snake'[1] = food <=> dir = log.eat_dir]_vars
\* A growth after a turn during the bite animation: the new head is not on
\* the cell where the Food was
W_C35 ==
    /\ call.op = "update" /\ call.path = "grow"
    /\ dir # log.eat_dir
    /\ snake[1] # Advance(snake[2], log.eat_dir)

\* C36: the game is in exactly one of Playing, Eating and GameOver: game_over
\* and consuming are never both true, and while consuming is true the
\* countdown chomp_frames is within 1..CHOMP_TOTAL.
C36_OneMode ==
    /\ ~(game_over /\ consuming)
    /\ consuming => chomp_frames \in 1..CHOMP_TOTAL

\* C37: in every reachable state at most POOP_TTL deposits are on the board:
\* at most one deposit is dropped per tick and all of them age together, so
\* the lifetimes are strictly increasing in the order of the drops, and each
\* of them is within 1..POOP_TTL.
C37_FewDeposits ==
    /\ Len(poops) <= POOP_TTL
    /\ \A i, j \in DOMAIN poops : i < j => poops[i].ttl < poops[j].ttl
    /\ \A i \in DOMAIN poops : 1 <= poops[i].ttl /\ poops[i].ttl <= POOP_TTL
\* Deposits of two Foods lie on the board together, the newest just dropped
W_C37 ==
    /\ call.op = "update" /\ call.path = "drop"
    /\ log.eaten = 2 /\ log.dropped > 3
    /\ Len(poops) = 3 /\ poops[1].ttl < POOP_TTL - 2

\* What one update() does to the fields the two variants share, as a function
\* of these fields and of the Food placement alone
SharedUpdate ==
    LET nh == Advance(snake[1], dir)
        hit == nh \in SnakeCells
        final == consuming /\ chomp_frames <= 1
        grows == final /\ ~hit
        enters == ~consuming /\ nh = food
        moves == ~consuming /\ nh # food /\ ~hit
        drops == moves /\ poop_to_drop > 0
    IN  IF game_over
        THEN UNCHANGED <<snake, dir, food, score, consuming, chomp_frames,
                         poop_to_drop, poops, game_over>>
        ELSE /\ dir' = dir
             /\ game_over' = (hit /\ (final \/ (~consuming /\ nh # food)))
             /\ snake' = IF grows THEN <<nh>> \o snake
                         ELSE IF moves THEN <<nh>> \o SubSeq(snake, 1, Len(snake) - 1)
                         ELSE snake
             /\ score' = IF grows THEN score + 10 ELSE score
             /\ consuming' = IF grows THEN FALSE ELSE IF enters THEN TRUE ELSE consuming
             /\ chomp_frames' = IF consuming THEN chomp_frames - 1
                                ELSE IF enters THEN CHOMP_TOTAL ELSE chomp_frames
             /\ poop_to_drop' = IF grows THEN 3
                                ELSE IF drops THEN poop_to_drop - 1 ELSE poop_to_drop
             /\ poops' = IF drops
                         THEN Append(Aged(poops), [p |-> snake[Len(snake)], ttl |-> POOP_TTL])
                         ELSE Aged(poops)
             /\ ~grows => food' = food

\* C38: the two variants run the same game.  In either variant an update()
\* changes the snake, dir, the Food, the score, the eating flag and countdown,
\* poop_to_drop, the deposits and game_over as SharedUpdate says, which knows
\* nothing of the variant, and a change_dir(key) sets dir by the same rule: from
\* the same initial state, with the same calls and Food placements, these
\* fields are the same after every step.  The Windows fields level, level_flash
\* and level_up_trigger keep their initial values in the macOS variant.
C38_SameGame ==
    /\ [][IsUpdate => SharedUpdate]_vars
    /\ [][~IsUpdate =>
            /\ UNCHANGED <<snake, food, score, consuming, chomp_frames,
                           poop_to_drop, poops, game_over, variant>>
            /\ dir' # dir =>
                  /\ call'.op = "change_dir" /\ call'.key \in {"W", "A", "S", "D"}
                  /\ dir' = KeyDir(call'.key) /\ dir' # Opposite(dir)]_vars
    /\ [](variant = "raw" => level = 1 /\ level_flash = 0 /\ ~level_up_trigger)
\* The Windows variant at the end of a run with two growths, a turn during a
\* bite animation and deposits on the board
W_C38 ==
    /\ variant = "win" /\ ticks = MaxTrailTicks
    /\ log.eaten = 2 /\ poops # <<>> /\ dir # log.eat_dir

\* The keys of a stretch of keystrokes that belong in the input queue
QueueKeys == {"W", "A", "S", "D", "Q"}
Accepted(k) ==
    SelectSeq([i \in DOMAIN k |-> ToUpper(k[i])], LAMBDA ch : ch \in QueueKeys)
\* The step is a run of the key pump that goes on to the apply step
IsPump == pc = "pump" /\ pc' = "apply"

\* C39: key input is buffered and neither lost nor reordered.  Only W, A, S, D
\* and Q are in the input queue; a run of the key pump appends the W/A/S/D/Q
\* among the keystrokes it reads, in either case, in the order typed, and
\* drops none of them; the queue changes besides only at the apply step,
\* which takes exactly one key, the front one, whenever the queue is not
\* empty, and hands it to change_dir(); in the macOS variant a queued Q stops
\* the loop only when it is taken from the front of the queue.
C39_KeysBuffered ==
    /\ [](\A i \in DOMAIN in_q : in_q[i] \in QueueKeys)
    /\ [][IsPump =>
            in_q' = in_q \o Accepted(SubSeq(kbd, 1, Len(kbd) - Len(kbd')))]_vars
    /\ [][pc = "apply" /\ pc' # "apply" /\ in_q # <<>> =>
            /\ in_q' = Tail(in_q)
            /\ IF variant = "raw" /\ Head(in_q) = "Q"
               THEN ~running' /\ dir' = dir
               ELSE call' = [op |-> "change_dir", key |-> Head(in_q)]]_vars
    /\ [][in_q' # in_q => pc = "pump" \/ pc = "apply"]_vars
    /\ [][running /\ ~running' =>
            \/ pc = "apply" /\ in_q # <<>> /\ Head(in_q) = "Q"
            \/ pc = "pump" /\ \E i \in DOMAIN kbd : kbd[i] = "^C"]_vars

=============================================================================
